---------------------------- MODULE Spec2Model ----------------------------
(***************************************************************************)
(* A model of the niri-config KDL language service:                        *)
(*   - the document analysis core of server/src/languageModes.ts           *)
(*     (findInvalidEscapes, doValidation, isInBlock, doComplete, doHover), *)
(*     computed character by character over the document text;             *)
(*   - the language-model cache of server/src/languageModelCache.ts;       *)
(*   - the hosting layer of server/src/server.ts (document lifecycle,      *)
(*     per-document settings cache, push/pull validation, completion).     *)
(* Text is a TLA+ string; offsets, lines and characters are 0-based as in  *)
(* the TypeScript source.                                                  *)
(***************************************************************************)
EXTENDS Integers, Sequences, FiniteSets, TLC

VARIABLES
    text,            \* the document text under analysis (document.getText())
    typed,           \* the fragments typed so far; text is their concatenation
    pc,              \* "editing" | "validated" | "completed" | "hovered"
    diagnostics,     \* the list returned by the last doValidation(text)
    position,        \* <<line, character>> of the last completion request
    enclosing,       \* the block names whose isInBlock flag doComplete found set
    completions,     \* the items returned by the last doComplete(text, position)
    hover,           \* the result of the last doHover(text, position)
    answered,        \* <<position, items>> of the first completion at each position
                     \* of the present text
    between          \* the calls made on the present text since its first completion

avars == <<text, typed, pc, diagnostics, position, enclosing, completions, hover,
           answered, between>>

VARIABLES
    hasConfigurationCapability, \* set by onInitialize from the client capabilities
    updateInPlace,   \* TextDocuments updates the synced document object in place
                     \* (TRUE) or replaces it by a new object (FALSE)
    clientConfig,    \* the kdlLanguageServer section the client holds
    documents,       \* documents: uri -> [open, version, text]
    order,           \* the uris of the open documents, in insertion order
    documentSettings,\* documentSettings: uri -> promise id, 0 when absent
    promises,        \* workspace/configuration requests: id -> [state, value]
    globalSettings,  \* globalSettings
    waiting,         \* async calls suspended at `await getDocumentSettings`
    microtasks,      \* continuations whose promise has settled, in run order
    published,       \* uri -> the list of the last sendDiagnostics, per document
    last,            \* what the handler that finished last did
    events           \* number of client messages handled so far

svars == <<hasConfigurationCapability, updateInPlace, clientConfig, documents, order,
           documentSettings, promises, globalSettings, waiting, microtasks,
           published, last, events>>

\* languageModelCache.ts: one cache made by getLanguageModelCache
VARIABLES
    maxEntries,               \* constructor argument
    cleanupIntervalTimeInSec, \* constructor argument, in clock units
    languageModels,           \* uri -> [present, version, languageId, cTime, languageModel]
    modelKeys,                \* the keys of languageModels in property order
    nModels,                  \* nModels
    cleanupInterval,          \* TRUE while the interval timer is defined
    clock,                    \* Date.now()
    call,                     \* what the last call on the cache did
    calls                     \* number of calls made so far

cvars == <<maxEntries, cleanupIntervalTimeInSec, languageModels, modelKeys, nModels,
           cleanupInterval, clock, call, calls>>

\* the client's side of the workspace/configuration requests
VARIABLES
    overtaken        \* request id -> the configurations the client held, before
                     \* its present one, while the request was unanswered

vars == <<avars, svars, cvars, overtaken>>

-----------------------------------------------------------------------------
(* Bounds of the model *)

MaxPieces == 3
MaxCompletionPieces == 4
MaxValuePieces == 3
MaxNestedPieces == 4
MaxEvents == 3
MaxVersion == 2
MaxRequests == 2
MaxRingPieces == 4
MaxHoverPieces == 3
MaxKeywordPieces == 3
MaxSessionPieces == 2
MaxCapacity == 3
MaxCalls == 4
MaxClock == 3

-----------------------------------------------------------------------------
(* Characters and JavaScript string primitives *)

QUOTE == "\""
BSLASH == "\\"
NL == "\n"

\* s[i] (0-based); "" when i is out of range, as charAt does
CharAt(s, i) == IF i >= 0 /\ i < Len(s) THEN SubSeq(s, i + 1, i + 1) ELSE ""

\* s.substring(a, b)
Substring(s, a, b) == SubSeq(s, a + 1, b)

\* regex \s (the members that occur in documents of the model)
IsSpace(c) == c \in {" ", "\t", "\r", "\n"}

LowerChars == {"a","b","c","d","e","f","g","h","i","j","k","l","m",
               "n","o","p","q","r","s","t","u","v","w","x","y","z"}
UpperChars == {"A","B","C","D","E","F","G","H","I","J","K","L","M",
               "N","O","P","Q","R","S","T","U","V","W","X","Y","Z"}
DigitChars == {"0","1","2","3","4","5","6","7","8","9"}

\* regex \w
IsWord(c) == c \in LowerChars \cup UpperChars \cup DigitChars \cup {"_"}

\* regex [0-9A-Fa-f]
IsHex(c) == c \in DigitChars \cup {"a","b","c","d","e","f","A","B","C","D","E","F"}

\* s.startsWith(p, at)
StartsWithAt(s, p, at) == at + Len(p) <= Len(s) /\ Substring(s, at, at + Len(p)) = p

\* s.indexOf(p, from): least index >= from where p occurs, -1 when there is none
IndexOf(s, p, from) ==
    LET hits == {i \in from..(Len(s) - Len(p)) : StartsWithAt(s, p, i)}
    IN IF hits = {} THEN -1 ELSE CHOOSE i \in hits : \A j \in hits : i <= j

\* s.includes(p)
Includes(s, p) == IndexOf(s, p, 0) # -1

\* number of indices of s whose character satisfies the set cs
CountChar(s, c) == Cardinality({i \in 0..(Len(s) - 1) : CharAt(s, i) = c})

\* length of the run of character c in s that starts at index i
RECURSIVE RunLength(_, _, _)
RunLength(s, c, i) == IF CharAt(s, i) = c THEN 1 + RunLength(s, c, i + 1) ELSE 0

\* text.split(/\r?\n/)
RECURSIVE SplitFrom(_, _)
SplitFrom(s, from) ==
    LET nl == IndexOf(s, NL, from)
    IN IF nl = -1
       THEN <<Substring(s, from, Len(s))>>
       ELSE LET stop == IF nl > from /\ CharAt(s, nl - 1) = "\r" THEN nl - 1 ELSE nl
            IN <<Substring(s, from, stop)>> \o SplitFrom(s, nl + 1)

SplitLines(s) == SplitFrom(s, 0)

\* line.trim(), the leading side (the side startsWith looks at)
RECURSIVE TrimStart(_)
TrimStart(s) == IF Len(s) > 0 /\ IsSpace(CharAt(s, 0)) THEN TrimStart(Substring(s, 1, Len(s))) ELSE s

\* document.positionAt(offset): <<line, character>>
PositionAt(s, offset) ==
    LET before == Substring(s, 0, offset)
        line == CountChar(before, NL)
        nls == {i \in 0..(offset - 1) : CharAt(s, i) = NL}
        lineStart == IF nls = {} THEN 0 ELSE 1 + CHOOSE i \in nls : \A j \in nls : j <= i
    IN <<line, offset - lineStart>>

\* the concatenation of a sequence of strings
RECURSIVE Join(_)
Join(fs) == IF fs = <<>> THEN "" ELSE Head(fs) \o Join(Tail(fs))

\* flatten a sequence of sequences
RECURSIVE Flatten(_)
Flatten(ss) == IF ss = <<>> THEN <<>> ELSE Head(ss) \o Flatten(Tail(ss))

-----------------------------------------------------------------------------
(* findInvalidEscapes: the string-literal scan and the escape allow-list *)

\* One match of stringRegex /r*#*"(.*?)"#*/gs attempted at index i: r* and #*
\* are greedy and cannot give back (the next character would be an r or a #,
\* never the quote), the lazy body ends at the first later quote, the
\* trailing #* is greedy. ok = FALSE when no match starts at i.
StringMatchAt(s, i) ==
    LET a == RunLength(s, "r", i)
        b == RunLength(s, "#", i + a)
        open == i + a + b
        close == IndexOf(s, QUOTE, open + 1)
    IN IF CharAt(s, open) = QUOTE /\ close # -1
       THEN [ok |-> TRUE, index |-> i, open |-> open, close |-> close,
             end |-> close + 1 + RunLength(s, "#", close + 1)]
       ELSE [ok |-> FALSE, index |-> i, open |-> open, close |-> close, end |-> i]

\* kdlText.matchAll(stringRegex): the leftmost match at or after lastIndex,
\* then on from its end
RECURSIVE StringMatchesFrom(_, _)
StringMatchesFrom(s, lastIndex) ==
    LET starts == {i \in lastIndex..(Len(s) - 1) : StringMatchAt(s, i).ok}
    IN IF starts = {} THEN <<>>
       ELSE LET i == CHOOSE x \in starts : \A y \in starts : x <= y
                m == StringMatchAt(s, i)
            IN <<m>> \o StringMatchesFrom(s, m.end)

StringMatches(s) == StringMatchesFrom(s, 0)

\* match[0] and match[1] of a string match
MatchText(s, m) == Substring(s, m.index, m.end)
MatchBody(s, m) == Substring(s, m.open + 1, m.close)

\* match[0].match(/^r#+|^r/): the match starts with the raw prefix
IsRaw(s, m) == CharAt(s, m.index) = "r"

\* the lookahead of invalidEscape at index i of the body:
\* [nrtbf"\\] | u[0-9A-Fa-f]{4} | U[0-9A-Fa-f]{8}
AllowedEscapeAt(body, i) ==
    \/ CharAt(body, i) \in {"n", "r", "t", "b", "f", QUOTE, BSLASH}
    \/ /\ CharAt(body, i) = "u"
       /\ \A k \in 1..4 : IsHex(CharAt(body, i + k))
    \/ /\ CharAt(body, i) = "U"
       /\ \A k \in 1..8 : IsHex(CharAt(body, i + k))

\* content.matchAll(invalidEscape): every backslash whose lookahead fails; the
\* match is the backslash alone, the lookahead consumes nothing
RECURSIVE InvalidEscapesFrom(_, _)
InvalidEscapesFrom(body, i) ==
    IF i >= Len(body) THEN <<>>
    ELSE IF CharAt(body, i) = BSLASH /\ ~AllowedEscapeAt(body, i + 1)
         THEN <<BSLASH>> \o InvalidEscapesFrom(body, i + 1)
         ELSE InvalidEscapesFrom(body, i + 1)

InvalidEscapes(body) == InvalidEscapesFrom(body, 0)

RECURSIVE EscapeResults(_, _)
EscapeResults(s, ms) ==
    IF ms = <<>> THEN <<>>
    ELSE LET m == Head(ms)
             bad == InvalidEscapes(MatchBody(s, m))
         IN (IF ~IsRaw(s, m) /\ bad # <<>>
             THEN <<[string |-> MatchText(s, m), invalid |-> bad]>>
             ELSE <<>>) \o EscapeResults(s, Tail(ms))

findInvalidEscapes(kdlText) == EscapeResults(kdlText, StringMatches(kdlText))

-----------------------------------------------------------------------------
(* doValidation *)

Diagnostic(severity, start, stop, message) ==
    [severity |-> severity, start |-> start, end |-> stop, message |-> message]

\* line.trim().startsWith('//') || line.trim().startsWith('/*')
IsCommentLine(line) ==
    StartsWithAt(TrimStart(line), "//", 0) \/ StartsWithAt(TrimStart(line), "/*", 0)

\* (line.match(/(?<!\\)"/g) || []).length
QuoteCount(line) ==
    Cardinality({i \in 0..(Len(line) - 1) :
                    CharAt(line, i) = QUOTE /\ CharAt(line, i - 1) # BSLASH})

\* the check without the exemption of lines that hold """
UnclosedStringDiagnosticsNoExemption(line, i) ==
    IF QuoteCount(line) % 2 # 0
    THEN <<Diagnostic("Error", <<i, 0>>, <<i, Len(line)>>, "Unclosed string literal")>>
    ELSE <<>>

UnclosedStringDiagnostics(line, i) ==
    IF QuoteCount(line) % 2 # 0 /\ ~Includes(line, "\"\"\"")
    THEN <<Diagnostic("Error", <<i, 0>>, <<i, Len(line)>>, "Unclosed string literal")>>
    ELSE <<>>

\* the diagnostics of one entry of findInvalidEscapes: each bad escape is
\* located by text.indexOf(bad, text.indexOf(invalid.string))
RECURSIVE BadEscapeDiagnostics(_, _, _)
BadEscapeDiagnostics(s, str, invalid) ==
    IF invalid = <<>> THEN <<>>
    ELSE LET bad == Head(invalid)
             idx == IndexOf(s, bad, IndexOf(s, str, 0))
         IN (IF idx = -1 THEN <<>>
             ELSE <<Diagnostic("Error", PositionAt(s, idx), PositionAt(s, idx + Len(bad)),
                               "Invalid escape sequence '" \o bad \o "'")>>)
            \o BadEscapeDiagnostics(s, str, Tail(invalid))

RECURSIVE EscapeDiagnosticsOf(_, _)
EscapeDiagnosticsOf(s, results) ==
    IF results = <<>> THEN <<>>
    ELSE BadEscapeDiagnostics(s, Head(results).string, Head(results).invalid)
         \o EscapeDiagnosticsOf(s, Tail(results))

\* the escape check sits inside the per-line loop and scans the whole text
EscapeDiagnostics(s) == EscapeDiagnosticsOf(s, findInvalidEscapes(s))

\* one iteration of the loop over the lines
LineDiagnostics(s, lines, i) ==
    IF IsCommentLine(lines[i + 1]) THEN <<>>
    ELSE UnclosedStringDiagnostics(lines[i + 1], i) \o EscapeDiagnostics(s)

\* a check that only reports opening braces left unclosed
BraceDiagnosticsLeftOpen(s, lines) ==
    LET openBraces == CountChar(s, "{")
        closeBraces == CountChar(s, "}")
    IN IF openBraces > closeBraces
       THEN <<Diagnostic("Warning", <<0, 0>>,
                         <<Len(lines) - 1, Len(lines[Len(lines)])>>,
                         "Unmatched braces: " \o ToString(openBraces) \o " opening, "
                            \o ToString(closeBraces) \o " closing")>>
       ELSE <<>>

BraceDiagnostics(s, lines) ==
    LET openBraces == CountChar(s, "{")
        closeBraces == CountChar(s, "}")
    IN IF openBraces # closeBraces
       THEN <<Diagnostic("Warning", <<0, 0>>,
                         <<Len(lines) - 1, Len(lines[Len(lines)])>>,
                         "Unmatched braces: " \o ToString(openBraces) \o " opening, "
                            \o ToString(closeBraces) \o " closing")>>
       ELSE <<>>

doValidation(s) ==
    LET lines == SplitLines(s)
    IN Flatten([i \in 1..Len(lines) |-> LineDiagnostics(s, lines, i - 1)])
       \o BraceDiagnostics(s, lines)

-----------------------------------------------------------------------------
(* The reference tables of languageModes.ts *)

NIRI_NODES ==
    <<"input", "output", "binds", "layout", "animations", "window-rule",
      "layer-rule", "switch-events", "keyboard", "touchpad", "mouse", "trackpoint",
      "xkb", "focus-ring", "border", "shadow", "struts", "hotkey-overlay",
      "preset-column-widths", "preset-window-heights", "debug">>

NIRI_FLAGS ==
    <<"tap", "dwt", "dwtp", "drag", "drag-lock", "natural-scroll",
      "numlock", "off", "warp-mouse-to-focus", "disabled-on-external-mouse", "scroll-button-lock", "middle-emulation",
      "prefer-no-csd", "skip-at-startup", "on", "draw-behind-window", "clip-to-geometry", "disable-cursor-plane",
      "render-drm-device", "open-floating", "open-maximized", "open-fullscreen">>

NIRI_KEY_MODIFIERS ==
    <<"Mod", "Super", "Alt", "Ctrl", "Shift">>

NIRI_SPECIAL_KEYS ==
    <<"Escape", "Return", "Space", "Tab", "Backspace", "Delete",
      "Slash", "Left", "Right", "Up", "Down", "Home",
      "End", "Page_Up", "Page_Down", "F1", "F2", "F3",
      "F4", "F5", "F6", "F7", "F8", "F9",
      "F10", "F11", "F12", "1", "2", "3",
      "4", "5", "6", "7", "8", "9",
      "0", "H", "J", "K", "L", "U",
      "I", "O", "Q", "R", "W", "C",
      "D", "E", "F", "P", "T", "V",
      "Minus", "Equal", "BracketLeft", "BracketRight", "Comma", "Period",
      "XF86AudioRaiseVolume", "XF86AudioLowerVolume", "XF86AudioMute", "XF86AudioMicMute", "XF86AudioPlay", "XF86AudioStop",
      "XF86AudioPrev", "XF86AudioNext", "XF86MonBrightnessUp", "XF86MonBrightnessDown", "Print", "WheelScrollDown",
      "WheelScrollUp", "WheelScrollLeft", "WheelScrollRight", "TouchpadScrollDown", "TouchpadScrollUp">>

NIRI_ACTIONS ==
    <<"spawn", "spawn-sh", "spawn-at-startup", "spawn-sh-at-startup", "close-window", "quit",
      "focus-column-left", "focus-column-right", "focus-window-up", "focus-window-down", "focus-column-first", "focus-column-last",
      "focus-window-or-workspace-down", "focus-window-or-workspace-up", "move-column-left", "move-column-right", "move-window-up", "move-window-down",
      "move-column-to-first", "move-column-to-last", "move-window-down-or-to-workspace-down", "move-window-up-or-to-workspace-up", "focus-monitor-left", "focus-monitor-right",
      "focus-monitor-up", "focus-monitor-down", "move-column-to-monitor-left", "move-column-to-monitor-right", "move-column-to-monitor-up", "move-column-to-monitor-down",
      "move-window-to-monitor-left", "move-window-to-monitor-right", "move-window-to-monitor-up", "move-window-to-monitor-down", "move-workspace-to-monitor-left", "move-workspace-to-monitor-right",
      "move-workspace-to-monitor-up", "move-workspace-to-monitor-down", "focus-workspace-down", "focus-workspace-up", "focus-workspace-previous", "focus-workspace",
      "move-column-to-workspace-down", "move-column-to-workspace-up", "move-column-to-workspace", "move-window-to-workspace-down", "move-window-to-workspace-up", "move-window-to-workspace",
      "move-workspace-down", "move-workspace-up", "consume-or-expel-window-left", "consume-or-expel-window-right", "consume-window-into-column", "expel-window-from-column",
      "center-column", "center-visible-columns", "maximize-column", "fullscreen-window", "set-column-width", "set-window-height",
      "switch-preset-column-width", "switch-preset-column-width-back", "switch-preset-window-height", "reset-window-height", "expand-column-to-available-width", "toggle-window-floating",
      "switch-focus-between-floating-and-tiling", "toggle-column-tabbed-display", "switch-layout", "screenshot", "screenshot-screen", "screenshot-window",
      "toggle-keyboard-shortcuts-inhibit", "power-off-monitors", "show-hotkey-overlay", "toggle-overview", "toggle-debug-tint">>

NIRI_TRANSFORM_VALUES ==
    <<"normal", "90", "180", "270", "flipped", "flipped-90",
      "flipped-180", "flipped-270">>

NIRI_CENTER_COLUMN_VALUES ==
    <<"never", "always", "on-overflow">>

NIRI_ACCEL_PROFILE_VALUES ==
    <<"flat", "adaptive">>

NIRI_SCROLL_METHOD_VALUES ==
    <<"two-finger", "edge", "on-button-down", "no-scroll">>

NIRI_PROPERTIES ==
    <<[name |-> "mode", valueType |-> "string"],
      [name |-> "scale", valueType |-> "number"],
      [name |-> "transform", valueType |-> "string"],
      [name |-> "position", valueType |-> "position"],
      [name |-> "x", valueType |-> "number"],
      [name |-> "y", valueType |-> "number"],
      [name |-> "gaps", valueType |-> "number"],
      [name |-> "width", valueType |-> "number"],
      [name |-> "height", valueType |-> "number"],
      [name |-> "proportion", valueType |-> "number"],
      [name |-> "fixed", valueType |-> "number"],
      [name |-> "center-focused-column", valueType |-> "string"],
      [name |-> "active-color", valueType |-> "color"],
      [name |-> "inactive-color", valueType |-> "color"],
      [name |-> "urgent-color", valueType |-> "color"],
      [name |-> "from", valueType |-> "color"],
      [name |-> "to", valueType |-> "color"],
      [name |-> "angle", valueType |-> "number"],
      [name |-> "relative-to", valueType |-> "string"],
      [name |-> "in", valueType |-> "string"],
      [name |-> "offset", valueType |-> "position"],
      [name |-> "softness", valueType |-> "number"],
      [name |-> "spread", valueType |-> "number"],
      [name |-> "color", valueType |-> "color"],
      [name |-> "accel-speed", valueType |-> "number"],
      [name |-> "accel-profile", valueType |-> "string"],
      [name |-> "scroll-method", valueType |-> "string"],
      [name |-> "scroll-button", valueType |-> "number"],
      [name |-> "max-scroll-amount", valueType |-> "string"],
      [name |-> "layout", valueType |-> "string"],
      [name |-> "variant", valueType |-> "string"],
      [name |-> "options", valueType |-> "string"],
      [name |-> "model", valueType |-> "string"],
      [name |-> "rules", valueType |-> "string"],
      [name |-> "allow-inhibiting", valueType |-> "boolean"],
      [name |-> "allow-when-locked", valueType |-> "boolean"],
      [name |-> "repeat", valueType |-> "boolean"],
      [name |-> "cooldown-ms", valueType |-> "number"],
      [name |-> "hotkey-overlay-title", valueType |-> "string"],
      [name |-> "match", valueType |-> "match"],
      [name |-> "app-id", valueType |-> "string"],
      [name |-> "title", valueType |-> "string"],
      [name |-> "default-column-width", valueType |-> "block"],
      [name |-> "opacity", valueType |-> "number"],
      [name |-> "geometry-corner-radius", valueType |-> "number"],
      [name |-> "block-out-from", valueType |-> "string"],
      [name |-> "draw-border-with-background", valueType |-> "boolean"],
      [name |-> "left", valueType |-> "number"],
      [name |-> "right", valueType |-> "number"],
      [name |-> "top", valueType |-> "number"],
      [name |-> "bottom", valueType |-> "number"],
      [name |-> "slowdown", valueType |-> "number"],
      [name |-> "screenshot-path", valueType |-> "string"]>>

-----------------------------------------------------------------------------
(* isInBlock and the completion context *)

\* the run of \s characters of s that starts at index i
RECURSIVE SpaceRun(_, _)
SpaceRun(s, i) == IF i < Len(s) /\ IsSpace(CharAt(s, i)) THEN 1 + SpaceRun(s, i + 1) ELSE 0

\* new RegExp(`\\b${blockName}\\s*\\{`) matches s at index i
BlockPatternAt(s, i, blockName) ==
    /\ ~IsWord(CharAt(s, i - 1))
    /\ StartsWithAt(s, blockName, i)
    /\ CharAt(s, i + Len(blockName) + SpaceRun(s, i + Len(blockName))) = "{"

\* a containment test that also answers true when the braces after the last
\* block start balance out
isInBlockNotBelow(s, offset, blockName) ==
    LET beforeCursor == Substring(s, 0, offset)
        starts == {i \in 0..(Len(beforeCursor) - 1) : BlockPatternAt(beforeCursor, i, blockName)}
        lastBlockStart == IF starts = {} THEN -1
                          ELSE CHOOSE i \in starts : \A j \in starts : j <= i
        afterBlock == Substring(beforeCursor, lastBlockStart, Len(beforeCursor))
    IN IF lastBlockStart = -1 THEN FALSE
       ELSE CountChar(afterBlock, "{") >= CountChar(afterBlock, "}")

isInBlock(s, offset, blockName) ==
    LET beforeCursor == Substring(s, 0, offset)
        starts == {i \in 0..(Len(beforeCursor) - 1) : BlockPatternAt(beforeCursor, i, blockName)}
        lastBlockStart == IF starts = {} THEN -1
                          ELSE CHOOSE i \in starts : \A j \in starts : j <= i
        afterBlock == Substring(beforeCursor, lastBlockStart, Len(beforeCursor))
    IN IF lastBlockStart = -1 THEN FALSE
       ELSE CountChar(afterBlock, "{") > CountChar(afterBlock, "}")

\* s without its trailing \s characters
RECURSIVE TrimEnd(_)
TrimEnd(s) == IF Len(s) > 0 /\ IsSpace(CharAt(s, Len(s) - 1)) THEN TrimEnd(Substring(s, 0, Len(s) - 1)) ELSE s

\* the length of the run of \w characters of s that ends just before index i
RECURSIVE WordRunBefore(_, _)
WordRunBefore(s, i) == IF i > 0 /\ IsWord(CharAt(s, i - 1)) THEN 1 + WordRunBefore(s, i - 1) ELSE 0

\* /(\w+)=\s*$/.exec(linePrefix): the captured name, "" when there is no match
AfterEqualsName(linePrefix) ==
    LET t == TrimEnd(linePrefix)
        eq == Len(t) - 1
        w == WordRunBefore(t, eq)
    IN IF Len(t) > 0 /\ CharAt(t, eq) = "=" /\ w > 0 THEN Substring(t, eq - w, eq) ELSE ""

\* /^\s*$/.test(linePrefix)
IsAtLineStart(linePrefix) == TrimEnd(linePrefix) = ""

\* /\{\s*$/.test(linePrefix)
IsInBraces(linePrefix) ==
    LET t == TrimEnd(linePrefix) IN Len(t) > 0 /\ CharAt(t, Len(t) - 1) = "{"

\* /^\s*\w+\s+$/.test(linePrefix)
IsAfterNodeName(linePrefix) ==
    LET t == TrimEnd(linePrefix)
        w == WordRunBefore(t, Len(t))
    IN /\ Len(t) < Len(linePrefix)
       /\ w > 0
       /\ TrimEnd(Substring(t, 0, Len(t) - w)) = ""

\* items of the sequence table that satisfy the name list, in table order
RECURSIVE FilterProperties(_, _)
FilterProperties(props, names) ==
    IF props = <<>> THEN <<>>
    ELSE (IF Head(props).name \in names THEN <<Head(props)>> ELSE <<>>)
         \o FilterProperties(Tail(props), names)

getRelevantProperties(isOutput, isLayout, isFocusRing, isBorder, isShadow, isInput, isBinds, isWindowRule) ==
    IF isOutput THEN
        FilterProperties(NIRI_PROPERTIES, {"mode", "scale", "transform", "position", "x", "y"})
    ELSE IF isLayout THEN
        FilterProperties(NIRI_PROPERTIES,
            {"gaps", "center-focused-column", "proportion", "fixed", "width", "height"})
    ELSE IF isFocusRing \/ isBorder THEN
        FilterProperties(NIRI_PROPERTIES,
            {"width", "active-color", "inactive-color", "urgent-color", "from", "to",
             "angle", "relative-to", "in"})
    ELSE IF isShadow THEN
        FilterProperties(NIRI_PROPERTIES, {"offset", "x", "y", "softness", "spread", "color"})
    ELSE IF isInput THEN
        FilterProperties(NIRI_PROPERTIES,
            {"accel-speed", "accel-profile", "scroll-method", "scroll-button",
             "max-scroll-amount", "layout", "variant", "options", "model", "rules"})
    ELSE IF isBinds THEN
        FilterProperties(NIRI_PROPERTIES,
            {"allow-inhibiting", "allow-when-locked", "repeat", "cooldown-ms",
             "hotkey-overlay-title"})
    ELSE IF isWindowRule THEN
        FilterProperties(NIRI_PROPERTIES,
            {"match", "app-id", "title", "opacity", "geometry-corner-radius",
             "block-out-from", "draw-border-with-background"})
    ELSE NIRI_PROPERTIES

-----------------------------------------------------------------------------
(* doComplete *)

\* a field the item literal does not set
None == ""

\* a CompletionItem; detail and documentation (descriptive text) are left out
Item(label, kind, data, insertText, sortText) ==
    [label |-> label, kind |-> kind, data |-> data, insertText |-> insertText,
     sortText |-> sortText]

\* table.forEach((val, index) => completions.push(item(val, index))) is written
\* [i \in 1..Len(table) |-> item(table[i], i - 1)]

QuotedEnumItem(prefix, val, i) ==
    Item(QUOTE \o val \o QUOTE, "EnumMember", prefix \o ToString(i), QUOTE \o val \o QUOTE, None)

TransformItem(val, i) == Item(val, "EnumMember", "transform_" \o ToString(i), None, None)
CenterItem(val, i) == QuotedEnumItem("center_", val, i)
AccelItem(val, i) == QuotedEnumItem("accel_", val, i)
ScrollItem(val, i) == QuotedEnumItem("scroll_", val, i)

\* NIRI_PROPERTIES.find(p => p.name === propertyName): <<>> when undefined
FindProperty(propertyName) ==
    LET hits == {i \in 1..Len(NIRI_PROPERTIES) : NIRI_PROPERTIES[i].name = propertyName}
    IN IF hits = {} THEN <<>>
       ELSE <<NIRI_PROPERTIES[CHOOSE i \in hits : \A j \in hits : i <= j]>>

\* switch (propDef.valueType)
ValueTypeItems(propertyName, valueType) ==
    CASE valueType = "boolean" ->
            <<Item("#true", "Value", None, None, None),
              Item("#false", "Value", None, None, None)>>
      [] valueType = "string" ->
            IF propertyName = "transform" THEN [i \in 1..Len(NIRI_TRANSFORM_VALUES) |-> TransformItem(NIRI_TRANSFORM_VALUES[i], i - 1)]
            ELSE IF propertyName = "center-focused-column"
                 THEN [i \in 1..Len(NIRI_CENTER_COLUMN_VALUES) |-> CenterItem(NIRI_CENTER_COLUMN_VALUES[i], i - 1)]
            ELSE IF propertyName = "accel-profile"
                 THEN [i \in 1..Len(NIRI_ACCEL_PROFILE_VALUES) |-> AccelItem(NIRI_ACCEL_PROFILE_VALUES[i], i - 1)]
            ELSE IF propertyName = "scroll-method"
                 THEN [i \in 1..Len(NIRI_SCROLL_METHOD_VALUES) |-> ScrollItem(NIRI_SCROLL_METHOD_VALUES[i], i - 1)]
            ELSE <<Item("\"\"", "Snippet", None, "\"$0\"", None)>>
      [] valueType = "number" -> <<Item("0", "Value", None, "0", None)>>
      [] valueType = "color" ->
            <<Item("\"#7fc8ff\"", "Color", None, "\"#7fc8ff\"", None),
              Item("\"rgb(255, 127, 0)\"", "Color", None,
                   "\"rgb(${1:255}, ${2:127}, ${3:0})\"", None),
              Item("\"rgba(255, 127, 0, 0.5)\"", "Color", None,
                   "\"rgba(${1:255}, ${2:127}, ${3:0}, ${4:0.5})\"", None)>>
      [] valueType = "position" ->
            <<Item("x=0 y=0", "Snippet", None, "x=${1:0} y=${2:0}", None)>>
      [] OTHER -> <<>>

\* "Always add basic value options"
BasicValueItems ==
    <<Item("true", "Value", None, None, None),
      Item("false", "Value", None, None, None),
      Item("null", "Value", None, None, None),
      Item("#null", "Value", None, None, None),
      Item("nan", "Value", None, None, None),
      Item("#nan", "Value", None, None, None),
      Item("inf", "Value", None, None, None),
      Item("-inf", "Value", None, None, None),
      Item("#inf", "Value", None, None, None),
      Item("#-inf", "Value", None, None, None)>>

\* the branch if (propertyName) { ... return }
PropertyValueItems(propertyName) ==
    LET propDef == FindProperty(propertyName)
    IN (IF propDef # <<>> THEN ValueTypeItems(propertyName, propDef[1].valueType) ELSE <<>>)
       \o BasicValueItems

\* a modifier item labelled with the bare modifier name
ModifierItemBare(mod, i) ==
    Item(mod, "Keyword", "modifier_" \o ToString(i), mod \o "+", "0_" \o mod)

ModifierItem(mod, i) ==
    Item(mod \o "+", "Keyword", "modifier_" \o ToString(i), mod \o "+", "0_" \o mod)
SpecialKeyItem(key, i) == Item(key, "Constant", "key_" \o ToString(i), key, "1_" \o key)
NodeItem(node, i) == Item(node, "Class", "node_" \o ToString(i), node, None)
FlagItem(flag, i) == Item(flag, "Constant", "flag_" \o ToString(i), flag, None)
PropertyItem(prop, i) ==
    Item(prop.name, "Property", "prop_" \o ToString(i), prop.name \o "=", None)
ActionItem(action, i) ==
    Item(action, "Function", "action_" \o ToString(i), action, "2_" \o action)

\* document.offsetAt(position), for a position inside the document
OffsetAt(s, pos) ==
    LET RECURSIVE LineStart(_)
        LineStart(l) == IF l = 0 THEN 0 ELSE IndexOf(s, NL, LineStart(l - 1)) + 1
    IN LineStart(pos[1]) + pos[2]

\* the list that doComplete returns (completionList.items)
doComplete(s, pos) ==
    LET offset == OffsetAt(s, pos)
        line == SplitLines(s)[pos[1] + 1]
        linePrefix == Substring(line, 0, pos[2])
        propertyName == AfterEqualsName(linePrefix)
        isAfterEquals == propertyName # ""
        isAtLineStart == IsAtLineStart(linePrefix)
        isInBraces == IsInBraces(linePrefix)
        isAfterNodeName == IsAfterNodeName(linePrefix)
        isInBindsBlock == isInBlock(s, offset, "binds")
        isInInputBlock == isInBlock(s, offset, "input")
        isInLayoutBlock == isInBlock(s, offset, "layout")
        isInFocusRingBlock == isInBlock(s, offset, "focus-ring")
        isInBorderBlock == isInBlock(s, offset, "border")
        isInShadowBlock == isInBlock(s, offset, "shadow")
        isInOutputBlock == isInBlock(s, offset, "output")
        isInWindowRuleBlock == isInBlock(s, offset, "window-rule")
        relevantProps == getRelevantProperties(
                             isInOutputBlock, isInLayoutBlock, isInFocusRingBlock,
                             isInBorderBlock, isInShadowBlock, isInInputBlock,
                             isInBindsBlock, isInWindowRuleBlock)
    IN IF isAfterEquals THEN PropertyValueItems(propertyName)
       ELSE (IF isInBindsBlock /\ isAtLineStart
             THEN [i \in 1..Len(NIRI_KEY_MODIFIERS) |-> ModifierItem(NIRI_KEY_MODIFIERS[i], i - 1)]
                  \o [i \in 1..Len(NIRI_SPECIAL_KEYS) |-> SpecialKeyItem(NIRI_SPECIAL_KEYS[i], i - 1)]
             ELSE <<>>)
            \o (IF (isAtLineStart \/ isInBraces) /\ ~isInBindsBlock
                THEN [i \in 1..Len(NIRI_NODES) |-> NodeItem(NIRI_NODES[i], i - 1)] \o [i \in 1..Len(NIRI_FLAGS) |-> FlagItem(NIRI_FLAGS[i], i - 1)]
                ELSE <<>>)
            \o (IF ~isAfterEquals /\ ~isAtLineStart
                THEN [i \in 1..Len(relevantProps) |-> PropertyItem(relevantProps[i], i - 1)]
                ELSE <<>>)
            \o (IF isAfterNodeName \/ isInBindsBlock
                THEN [i \in 1..Len(NIRI_ACTIONS) |-> ActionItem(NIRI_ACTIONS[i], i - 1)]
                ELSE <<>>)

-----------------------------------------------------------------------------
(* server.ts: documents, settings and the asynchronous validation calls *)

URIs == {"a.kdl", "b.kdl"}

\* the texts the client sends: one without findings, one with three
\* (two unclosed strings and unmatched braces)
DocTexts == {"a", "\"\n\"\n{"}

\* a KDLSettings value, or the null that workspace/configuration answers for
\* an unregistered section
Settings(validate, maxNumberOfProblems) ==
    [null |-> FALSE, validate |-> validate, maxNumberOfProblems |-> maxNumberOfProblems]

Null == [null |-> TRUE, validate |-> FALSE, maxNumberOfProblems |-> 0]

defaultSettings == Settings(TRUE, 100)

ClientConfigs == {Settings(TRUE, 100), Settings(TRUE, 1), Settings(FALSE, 100), Null}

\* edition numbers the states a document goes through (every open and every
\* change makes a new one, whatever version number the client gives it)
ClosedDocument == [open |-> FALSE, version |-> 0, text |-> "", edition |-> 0]

PromiseIds == 1..MaxRequests

UnusedPromise == [state |-> "unused", value |-> Null]

NoOutcome ==
    [op |-> "none", uri |-> "", result |-> "none", settings |-> "ok", items |-> <<>>,
     validated |-> FALSE, validatedEdition |-> 0, triggerEdition |-> 0,
     superseded |-> FALSE, text |-> "", enabled |-> FALSE, cap |-> 0]

\* the state after connection.onInitialize, no document open
InitServerWith(capability, inPlace, config) ==
    /\ hasConfigurationCapability = capability
    /\ updateInPlace = inPlace
    /\ clientConfig = config
    /\ documents = [u \in URIs |-> ClosedDocument]
    /\ order = <<>>
    /\ documentSettings = [u \in URIs |-> 0]
    /\ promises = [p \in PromiseIds |-> UnusedPromise]
    /\ globalSettings = defaultSettings
    /\ waiting = <<>>
    /\ microtasks = <<>>
    /\ published = [u \in URIs |-> [sent |-> FALSE, diagnostics |-> <<>>]]
    /\ last = NoOutcome
    /\ events = 0
    /\ overtaken = [p \in PromiseIds |-> {}]

\* an async call of validateTextDocument ("push") or
\* validateTextDocumentDiagnostics ("pull") on a document object: version and
\* text are what the object holds, live tells whether it still is the synced
\* object of its uri, trigger is the edition it had when the call was made
Task(kind, uri, doc) ==
    [kind |-> kind, uri |-> uri, version |-> doc.version, text |-> doc.text,
     edition |-> doc.edition, live |-> TRUE, trigger |-> doc.edition,
     superseded |-> FALSE, promise |-> 0]

UnusedPromises(pr) == {p \in PromiseIds : pr[p].state = "unused"}

\* a call that sends a new request when the cached one has failed
LaunchAskingAgain(h, t) ==
    IF ~hasConfigurationCapability
    THEN [h EXCEPT !.mt = Append(@, [task |-> t, settled |-> "resolved", value |-> h.gs])]
    ELSE IF h.ds[t.uri] # 0 /\ h.pr[h.ds[t.uri]].state = "pending"
         THEN [h EXCEPT !.wt = Append(@, [t EXCEPT !.promise = h.ds[t.uri]])]
    ELSE IF h.ds[t.uri] # 0 /\ h.pr[h.ds[t.uri]].state = "resolved"
         THEN [h EXCEPT !.mt = Append(@, [task |-> [t EXCEPT !.promise = h.ds[t.uri]],
                                          settled |-> "resolved",
                                          value |-> h.pr[h.ds[t.uri]].value])]
    ELSE LET p == CHOOSE q \in {r \in PromiseIds : h.pr[r].state = "unused"} :
                      \A r \in {r \in PromiseIds : h.pr[r].state = "unused"} : q <= r
         IN [h EXCEPT !.ds[t.uri] = p,
                      !.pr[p] = [state |-> "pending", value |-> Null],
                      !.wt = Append(@, [t EXCEPT !.promise = p])]

\* the call runs up to `await getDocumentSettings(textDocument.uri)`.
\* h = [ds, pr, wt, mt, gs]: documentSettings, promises, waiting, microtasks,
\* globalSettings as the call finds and leaves them
Launch(h, t) ==
    IF ~hasConfigurationCapability
    THEN [h EXCEPT !.mt = Append(@, [task |-> t, settled |-> "resolved", value |-> h.gs])]
    ELSE IF h.ds[t.uri] # 0
         THEN LET p == h.ds[t.uri]
              IN IF h.pr[p].state = "pending"
                 THEN [h EXCEPT !.wt = Append(@, [t EXCEPT !.promise = p])]
                 ELSE [h EXCEPT !.mt = Append(@, [task |-> [t EXCEPT !.promise = p],
                                                  settled |-> h.pr[p].state,
                                                  value |-> h.pr[p].value])]
         ELSE LET p == CHOOSE q \in UnusedPromises(h.pr) : \A r \in UnusedPromises(h.pr) : q <= r
              IN [h EXCEPT !.ds[t.uri] = p,
                           !.pr[p] = [state |-> "pending", value |-> Null],
                           !.wt = Append(@, [t EXCEPT !.promise = p])]

RECURSIVE LaunchAll(_, _)
LaunchAll(h, ts) == IF ts = <<>> THEN h ELSE LaunchAll(Launch(h, Head(ts)), Tail(ts))

Here == [ds |-> documentSettings, pr |-> promises, wt |-> waiting, mt |-> microtasks,
         gs |-> globalSettings]

Become(h) ==
    /\ documentSettings' = h.ds
    /\ promises' = h.pr
    /\ waiting' = h.wt
    /\ microtasks' = h.mt
    /\ globalSettings' = h.gs

\* a client message is handled only when no continuation is left to run
\* (microtasks run before the next message is read)
CanHandle == microtasks = <<>> /\ events < MaxEvents

\* the requests a launch on these uris may have to send
CanRequest(uris) ==
    hasConfigurationCapability => Cardinality(UnusedPromises(promises)) >= Cardinality(uris)

-----------------------------------------------------------------------------
(* doHover *)

\* regex \b at index i of s
WordBoundaryAt(s, i) == IsWord(CharAt(s, i - 1)) # IsWord(CharAt(s, i))

\* regex [A-Za-z0-9\-_]
IsTokenChar(c) == IsWord(c) \/ c = "-"

RECURSIVE TokenRun(_, _)
TokenRun(s, i) == IF IsTokenChar(CharAt(s, i)) THEN 1 + TokenRun(s, i + 1) ELSE 0

\* [A-Za-z0-9\-_]+\b from index i: the longest run that ends at a word
\* boundary, 0 when there is none
TokenLengthAt(s, i) ==
    LET ends == {n \in 1..TokenRun(s, i) : WordBoundaryAt(s, i + n)}
    IN IF ends = {} THEN 0 ELSE CHOOSE n \in ends : \A m \in ends : m <= n

\* the length of the match of \b[#]?[A-Za-z0-9\-_]+\b that starts at index
\* i, 0 when there is none
WordMatchLengthAt(s, i) ==
    IF ~WordBoundaryAt(s, i) THEN 0
    ELSE IF CharAt(s, i) = "#" /\ TokenLengthAt(s, i + 1) > 0
         THEN 1 + TokenLengthAt(s, i + 1)
         ELSE TokenLengthAt(s, i)

\* /\b[#]?[A-Za-z0-9\-_]+\b/.exec(context): the first match, "" without one
WordMatch(context) ==
    LET starts == {i \in 0..(Len(context) - 1) : WordMatchLengthAt(context, i) > 0}
        first == CHOOSE i \in starts : \A j \in starts : i <= j
    IN IF starts = {} THEN ""
       ELSE Substring(context, first, first + WordMatchLengthAt(context, first))

\* /^#?(true|false|null|nan|inf|-inf)$/.test(token)
IsLiteralToken(token) ==
    token \in {"true", "false", "null", "nan", "inf", "-inf",
               "#true", "#false", "#null", "#nan", "#inf", "#-inf"}

NoHover == [kind |-> "none", token |-> ""]

\* the lookups of doHover, in their order: property, node, flag, literal
HoverOf(token) ==
    IF FindProperty(token) # <<>> THEN [kind |-> "Property", token |-> token]
    ELSE IF \E i \in 1..Len(NIRI_NODES) : NIRI_NODES[i] = token
         THEN [kind |-> "Section", token |-> token]
    ELSE IF \E i \in 1..Len(NIRI_FLAGS) : NIRI_FLAGS[i] = token
         THEN [kind |-> "Flag", token |-> token]
    ELSE IF IsLiteralToken(token) THEN [kind |-> "Literal", token |-> token]
    ELSE NoHover

Max(a, b) == IF a > b THEN a ELSE b

\* doHover(document, position)
doHover(s, pos) ==
    LET offset == OffsetAt(s, pos)
        to == IF offset + 20 < Len(s) THEN offset + 20 ELSE Len(s)
        context == Substring(s, Max(0, offset - 20), to)
        token == WordMatch(context)
    IN IF token = "" THEN NoHover ELSE HoverOf(token)

-----------------------------------------------------------------------------
(* languageModelCache.ts *)

CacheURIs == {"a", "b", "c"}

\* a TextDocument as the cache sees it
Doc(uri, version, languageId) == [uri |-> uri, version |-> version, languageId |-> languageId]

\* the documents passed to the cache: document a in two versions and under
\* two language ids, b and c in one
CacheDocuments ==
    {Doc("a", 1, "kdl"), Doc("a", 2, "kdl"), Doc("a", 1, "plaintext"),
     Doc("b", 1, "kdl"), Doc("c", 1, "kdl")}

\* parse(document): the model of a document tells what it was parsed from
parse(document) == <<document.uri, document.version, document.languageId>>

NoModel == <<>>

Absent == [present |-> FALSE, version |-> 0, languageId |-> "", cTime |-> 0,
           languageModel |-> NoModel]

NoCall == [op |-> "none", uri |-> "", version |-> 0, languageId |-> "", before |-> Absent,
           parsed |-> 0, returned |-> NoModel, evicted |-> "", filled |-> 0, oldest |-> 0,
           evictedTime |-> 0]

\* a get of the document, before it has looked anything up
GetCall(document, info) ==
    [NoCall EXCEPT !.op = "get", !.uri = document.uri, !.version = document.version,
                   !.languageId = document.languageId, !.before = info]

\* getLanguageModelCache(maxEntries, cleanupIntervalTimeInSec, parse)
InitCacheWith(capacity, interval) ==
    /\ maxEntries = capacity
    /\ cleanupIntervalTimeInSec = interval
    /\ languageModels = [u \in CacheURIs |-> Absent]
    /\ modelKeys = <<>>
    /\ nModels = 0
    /\ cleanupInterval = (interval > 0)
    /\ clock = 0
    /\ call = NoCall
    /\ calls = 0

\* languageModelInfo && version === version && languageId === languageId,
\* whatever the version
IsHitAnyVersion(info, document) ==
    info.present /\ info.languageId = document.languageId

\* languageModelInfo && languageModelInfo.version === version &&
\* languageModelInfo.languageId === languageId
IsHit(info, document) ==
    info.present /\ info.version = document.version /\ info.languageId = document.languageId

\* the for...in loop over languageModels: the first key, in property order,
\* whose cTime is below that of every key before it; "" when there is no key
RECURSIVE OldestFrom(_, _, _, _)
OldestFrom(models, ks, oldestUri, oldestTime) ==
    IF ks = <<>> THEN oldestUri
    ELSE IF oldestUri = "" \/ models[Head(ks)].cTime < oldestTime
         THEN OldestFrom(models, Tail(ks), Head(ks), models[Head(ks)].cTime)
         ELSE OldestFrom(models, Tail(ks), oldestUri, oldestTime)

Oldest(models, ks) == OldestFrom(models, ks, "", 0)

Without(ks, uri) == SelectSeq(ks, LAMBDA k : k # uri)

\* Date.now() at a call: the clock has not moved, or it has
Now == {t \in {clock, clock + 1} : t <= MaxClock}

\* cache.get(document)
Get(document) ==
    /\ calls < MaxCalls
    /\ \E now \in Now :
          LET info == languageModels[document.uri]
          IN /\ clock' = now
             /\ IF IsHit(info, document)
                THEN /\ languageModels' = [languageModels EXCEPT ![document.uri].cTime = now]
                     /\ UNCHANGED <<modelKeys, nModels>>
                     /\ call' = [GetCall(document, info) EXCEPT
                                    !.returned = info.languageModel]
                ELSE LET languageModel == parse(document)
                         stored == [languageModels EXCEPT ![document.uri] =
                                       [present |-> TRUE, version |-> document.version,
                                        languageId |-> document.languageId, cTime |-> now,
                                        languageModel |-> languageModel]]
                         ks == IF info.present THEN modelKeys
                               ELSE Append(modelKeys, document.uri)
                         n == IF info.present THEN nModels ELSE nModels + 1
                         oldestUri == IF n = maxEntries THEN Oldest(stored, ks) ELSE ""
                     IN /\ languageModels' = IF oldestUri # ""
                                             THEN [stored EXCEPT ![oldestUri] = Absent]
                                             ELSE stored
                        /\ modelKeys' = IF oldestUri # "" THEN Without(ks, oldestUri) ELSE ks
                        /\ nModels' = IF oldestUri # "" THEN n - 1 ELSE n
                        /\ call' = [GetCall(document, info) EXCEPT
                                       !.parsed = 1,
                                       !.returned = languageModel, !.evicted = oldestUri,
                                       !.filled = n,
                                       !.oldest = stored[Oldest(stored, ks)].cTime,
                                       !.evictedTime = IF oldestUri # ""
                                                       THEN stored[oldestUri].cTime ELSE 0]
    /\ calls' = calls + 1
    /\ UNCHANGED <<maxEntries, cleanupIntervalTimeInSec, cleanupInterval>>
    /\ UNCHANGED <<avars, svars, overtaken>>

\* cache.onDocumentRemoved(document)
OnDocumentRemoved(document) ==
    /\ calls < MaxCalls
    /\ IF languageModels[document.uri].present
       THEN /\ languageModels' = [languageModels EXCEPT ![document.uri] = Absent]
            /\ modelKeys' = Without(modelKeys, document.uri)
            /\ nModels' = nModels - 1
       ELSE UNCHANGED <<languageModels, modelKeys, nModels>>
    /\ call' = [NoCall EXCEPT !.op = "onDocumentRemoved", !.uri = document.uri]
    /\ calls' = calls + 1
    /\ UNCHANGED <<maxEntries, cleanupIntervalTimeInSec, cleanupInterval, clock>>
    /\ UNCHANGED <<avars, svars, overtaken>>

\* cache.dispose()
Dispose ==
    /\ calls < MaxCalls
    /\ IF cleanupInterval
       THEN /\ cleanupInterval' = FALSE
            /\ languageModels' = [u \in CacheURIs |-> Absent]
            /\ modelKeys' = <<>>
            /\ nModels' = 0
       ELSE UNCHANGED <<cleanupInterval, languageModels, modelKeys, nModels>>
    /\ call' = [NoCall EXCEPT !.op = "dispose"]
    /\ calls' = calls + 1
    /\ UNCHANGED <<maxEntries, cleanupIntervalTimeInSec, clock>>
    /\ UNCHANGED <<avars, svars, overtaken>>

\* the setInterval callback: entries not accessed since the cutoff go
Sweep ==
    /\ cleanupInterval
    /\ \E now \in Now :
          LET cutoffTime == now - cleanupIntervalTimeInSec
              stale == {u \in CacheURIs :
                           languageModels[u].present /\ languageModels[u].cTime < cutoffTime}
          IN /\ stale # {}
             /\ clock' = now
             /\ languageModels' = [u \in CacheURIs |->
                                      IF u \in stale THEN Absent ELSE languageModels[u]]
             /\ modelKeys' = SelectSeq(modelKeys, LAMBDA k : k \notin stale)
             /\ nModels' = nModels - Cardinality(stale)
    /\ call' = [NoCall EXCEPT !.op = "sweep"]
    /\ UNCHANGED <<maxEntries, cleanupIntervalTimeInSec, cleanupInterval, calls>>
    /\ UNCHANGED <<avars, svars, overtaken>>

-----------------------------------------------------------------------------
(* The documents the validator is run on: typed fragment by fragment *)

StrInvalidEscape == "\"\\q\""          \* "\q"
StrNewlineEscape == "\"\\n\""          \* "\n"
StrUnicodeEscape == "\"\\u00e9\""      \* "\u00e9"
StrEscapedBackslash == "\"\\\\\""      \* "\\"
StrEscapedQuote == "\"a\\\"b\""        \* "a\"b"
RawPlain == "r\"\\q\""                 \* r"\q"
RawFenced == "r#\"\\q\"#"              \* r#"\q"#
RawFencedQuotes == "r#\"a\"b\"\\q\"#"  \* r#"a"b"\q"#
CommentEscape == "// \"\\q\""          \* // "\q"
CommentBrace == "// {"
StrUnclosed == "\"a"                   \* "a
TripleQuote == "\"\"\""                \* """
StrBrace == "node prop=\"{\""          \* node prop="{"

\* fragments that hold no string literal and no comment
NeutralFragments == {NL, "a", " "}

\* well-formed non-raw strings that use allow-listed escapes only
ValidStringFragments == {StrNewlineEscape, StrUnicodeEscape, StrEscapedBackslash, StrEscapedQuote}

RawStringFragments == {RawPlain, RawFenced, RawFencedQuotes}

CommentFragments == {CommentEscape, CommentBrace}

\* an unterminated string, a multi-line string marker, braces in and out of
\* a string
QuoteFragments == {StrUnclosed, TripleQuote}

BraceFragments == {StrBrace, "}"}

ValidationFragments ==
    NeutralFragments \cup ValidStringFragments \cup RawStringFragments
        \cup CommentFragments \cup {StrInvalidEscape}
        \cup QuoteFragments \cup BraceFragments

InitDocument ==
    /\ text = ""
    /\ typed = <<>>
    /\ pc = "editing"
    /\ diagnostics = <<>>
    /\ position = <<0, 0>>
    /\ enclosing = {}
    /\ completions = <<>>
    /\ hover = NoHover
    /\ answered = {}
    /\ between = {}

\* the language mode is exercised on its own, the server idle
InitAnalysis ==
    InitDocument /\ InitServerWith(TRUE, TRUE, defaultSettings) /\ InitCacheWith(1, 0)

\* the editor appends fragment f to the document
Type(f) ==
    /\ text' = text \o f
    /\ typed' = Append(typed, f)
    /\ pc' = "editing"
    /\ diagnostics' = <<>>
    /\ position' = <<0, 0>>
    /\ enclosing' = {}
    /\ completions' = <<>>
    /\ hover' = NoHover
    /\ answered' = {}
    /\ between' = {}
    /\ UNCHANGED <<svars, cvars, overtaken>>

TypeValidation == Len(typed) < MaxPieces /\ \E f \in ValidationFragments : Type(f)

\* mode.doValidation(document)
Validate ==
    /\ pc = "editing"
    /\ diagnostics' = doValidation(text)
    /\ pc' = "validated"
    /\ UNCHANGED <<text, typed, position, enclosing, completions, hover, answered, between>>
    /\ UNCHANGED <<svars, cvars, overtaken>>

NextValidate == TypeValidation \/ Validate

SpecValidate == InitAnalysis /\ [][NextValidate]_vars

-----------------------------------------------------------------------------
(* Claims about doValidation, checked under SpecValidate *)

IsEscapeDiagnostic(d) == StartsWithAt(d.message, "Invalid escape sequence", 0)

EscapeDiagnosticCount == Cardinality({i \in 1..Len(diagnostics) : IsEscapeDiagnostic(diagnostics[i])})

TypedOnly(fragments) == \A i \in 1..Len(typed) : typed[i] \in fragments

TypedCount(f) == Cardinality({i \in 1..Len(typed) : typed[i] = f})

\* C4: a document with exactly one disallowed escape in one non-raw string,
\* otherwise well-formed (here: the string "\q" among node names, blanks and
\* line breaks), validates to exactly one 'Invalid escape sequence' diagnostic,
\* whatever its number of lines.
C4_ExactlyOneEscapeDiagnostic ==
    (/\ pc = "validated"
     /\ TypedCount(StrInvalidEscape) = 1
     /\ TypedOnly(NeutralFragments \cup {StrInvalidEscape}))
        => EscapeDiagnosticCount = 1

\* C5: a document whose strings are all well-formed non-raw strings with
\* allow-listed escapes (escaped backslash and escaped quote included)
\* validates to no invalid-escape diagnostic.
C5_NoEscapeDiagnosticForValidStrings ==
    (/\ pc = "validated"
     /\ TypedOnly(NeutralFragments \cup ValidStringFragments))
        => EscapeDiagnosticCount = 0

\* the document as it was before its last line was typed
TextBeforeLastLine == Join(SubSeq(typed, 1, Len(typed) - 2))

\* C6: a line whose trimmed content begins with // never causes a diagnostic:
\* adding the comment line  // "\q"  as a new last line of a document adds no
\* diagnostic to those of the document (of node names, blanks and line
\* breaks) without it.
C6_CommentLineAddsNoDiagnostic ==
    (/\ pc = "validated"
     /\ Len(typed) >= 3
     /\ typed[Len(typed) - 1] = NL
     /\ typed[Len(typed)] = CommentEscape
     /\ \A i \in 1..(Len(typed) - 2) : typed[i] \in NeutralFragments)
        => Len(diagnostics) = Len(doValidation(TextBeforeLastLine))

\* C10: a document whose only string literals are raw strings (r"..." or
\* r#"..."#, the fenced ones possibly with embedded quotes) validates to no
\* invalid-escape diagnostic.
C10_NoEscapeDiagnosticForRawStrings ==
    (/\ pc = "validated"
     /\ TypedOnly(NeutralFragments \cup RawStringFragments))
        => EscapeDiagnosticCount = 0

\* C11: when findInvalidEscapes scans for string-literal spans, an escaped
\* quote inside a string body does not end the span: the only span of the
\* document "a\"b" is the whole literal, and its body is a\"b.
C11_EscapedQuoteDoesNotEndTheSpan ==
    (pc = "validated" /\ typed = <<StrEscapedQuote>>) =>
        LET spans == StringMatches(text)
        IN /\ Len(spans) = 1
           /\ MatchText(text, spans[1]) = StrEscapedQuote
           /\ MatchBody(text, spans[1]) = Substring(StrEscapedQuote, 1, Len(StrEscapedQuote) - 1)

\* C12: every invalid-escape diagnostic lies exactly on its offending escape:
\* its range starts at a backslash that begins a disallowed escape and ends
\* two characters later on the same line (here for documents whose only
\* strings are "\q" and "\n").
C12_EscapeDiagnosticCoversItsEscape ==
    (pc = "validated" /\ TypedOnly(NeutralFragments \cup {StrInvalidEscape, StrNewlineEscape})) =>
        \A i \in 1..Len(diagnostics) :
            IsEscapeDiagnostic(diagnostics[i]) =>
                LET d == diagnostics[i]
                    at == OffsetAt(text, d.start)
                IN /\ CharAt(text, at) = BSLASH
                   /\ ~AllowedEscapeAt(text, at + 1)
                   /\ d.end = <<d.start[1], d.start[2] + 2>>

IsUnclosedDiagnostic(d) == d.message = "Unclosed string literal"

\* the number of " characters of the line not immediately preceded by a backslash
UnescapedQuotes(line) ==
    Cardinality({k \in 0..(Len(line) - 1) :
                    /\ CharAt(line, k) = QUOTE
                    /\ (k = 0 \/ CharAt(line, k - 1) # BSLASH)})

\* what C17 expects for line i (0-based) of the document
ExpectedUnclosed(lines, i) ==
    LET line == lines[i + 1]
    IN IF UnescapedQuotes(line) % 2 = 1 /\ ~Includes(line, TripleQuote)
       THEN {Diagnostic("Error", <<i, 0>>, <<i, Len(line)>>, "Unclosed string literal")}
       ELSE {}

\* C17: for every line that is not a comment line, doValidation emits exactly
\* one Error 'Unclosed string literal' with range (line,0)-(line,length) if
\* and only if the number of quotes not preceded by a backslash is odd and
\* the line does not hold """; otherwise none for that line.
C17_UnclosedStringPerLine ==
    pc = "validated" =>
        LET lines == SplitLines(text)
        IN \A i \in 0..(Len(lines) - 1) :
              ~IsCommentLine(lines[i + 1]) =>
                 LET found == {k \in 1..Len(diagnostics) :
                                  /\ IsUnclosedDiagnostic(diagnostics[k])
                                  /\ diagnostics[k].start[1] = i}
                 IN /\ Cardinality(found) = Cardinality(ExpectedUnclosed(lines, i))
                    /\ {diagnostics[k] : k \in found} = ExpectedUnclosed(lines, i)

\* a two-line document was validated whose first line holds """ (exempt) and
\* whose second line holds an unterminated string (reported)
C17_UnclosedReportedAndExempted ==
    /\ pc = "validated"
    /\ typed = <<TripleQuote, NL, StrUnclosed>>
    /\ \E k \in 1..Len(diagnostics) : IsUnclosedDiagnostic(diagnostics[k])

BraceWarnings == {k \in 1..Len(diagnostics) : diagnostics[k].severity = "Warning"}

\* C18: doValidation emits exactly one Warning 'Unmatched braces: <open>
\* opening, <close> closing' spanning the whole document if and only if the
\* numbers of { and } characters of the text differ, braces in strings and
\* comments counted too; none when the numbers are equal.
C18_UnmatchedBracesWarning ==
    pc = "validated" =>
        LET open == CountChar(text, "{")
            close == CountChar(text, "}")
        IN IF open # close
           THEN /\ Cardinality(BraceWarnings) = 1
                /\ \A k \in BraceWarnings :
                      diagnostics[k] =
                          Diagnostic("Warning", <<0, 0>>, PositionAt(text, Len(text)),
                                     "Unmatched braces: " \o ToString(open)
                                        \o " opening, " \o ToString(close) \o " closing")
           ELSE BraceWarnings = {}

\* the document `node prop="{"` was validated and got the warning
C18_BraceInStringWarned ==
    /\ pc = "validated"
    /\ typed = <<StrBrace>>
    /\ \E k \in BraceWarnings :
          diagnostics[k].message = "Unmatched braces: 1 opening, 0 closing"

-----------------------------------------------------------------------------
(* The documents and cursor positions doComplete is run on *)

\* the block names doComplete asks isInBlock about
RecognizedBlocks ==
    {"binds", "input", "layout", "focus-ring", "border", "shadow", "output", "window-rule"}

Indent == "  "

BlockFragments == {"input {", "binds {", "}", NL, Indent, "a"}

\* blocks within blocks: a key binding inside binds, blocks after and inside
\* each other
NestedFragments == {"input {", "binds {", "Mod+Q {", "}", NL, Indent}

\* `name=` for every property of the table
PropertyAssignments == {NIRI_PROPERTIES[i].name \o "=" : i \in 1..Len(NIRI_PROPERTIES)}

ValueFragments == PropertyAssignments \cup {"binds {", NL, " "}

TypeBlock == Len(typed) < MaxCompletionPieces /\ \E f \in BlockFragments : Type(f)

\* at most one property assignment per document
TypeValue ==
    /\ Len(typed) < MaxValuePieces
    /\ \E f \in ValueFragments :
          /\ f \in PropertyAssignments => \A i \in 1..Len(typed) : typed[i] \notin PropertyAssignments
          /\ Type(f)

\* connection.onCompletion -> mode.doComplete(document, position), the cursor
\* standing where one of the typed fragments ends
Complete ==
    /\ pc = "editing"
    /\ \E k \in 0..Len(typed) :
          LET p == PositionAt(text, Len(Join(SubSeq(typed, 1, k))))
          IN /\ position' = p
             /\ enclosing' = {b \in RecognizedBlocks : isInBlock(text, OffsetAt(text, p), b)}
             /\ completions' = doComplete(text, p)
    /\ pc' = "completed"
    /\ UNCHANGED <<text, typed, diagnostics, hover, answered, between>>
    /\ UNCHANGED <<svars, cvars, overtaken>>

NextComplete == TypeBlock \/ Complete

SpecComplete == InitAnalysis /\ [][NextComplete]_vars

NextCompleteValue == TypeValue \/ Complete

SpecCompleteValue == InitAnalysis /\ [][NextCompleteValue]_vars

TypeNested == Len(typed) < MaxNestedPieces /\ \E f \in NestedFragments : Type(f)

NextCompleteNested == TypeNested \/ Complete

SpecCompleteNested == InitAnalysis /\ [][NextCompleteNested]_vars

-----------------------------------------------------------------------------
(* Claims about doComplete and isInBlock *)

\* text.substring(0, offset) at the cursor of the last completion request
BeforeCursor == Substring(text, 0, OffsetAt(text, position))

LabelsOfKind(kind) ==
    {completions[i].label : i \in {j \in 1..Len(completions) : completions[j].kind = kind}}

Labels == {completions[i].label : i \in 1..Len(completions)}

\* C1: with the cursor on a whitespace-only line directly inside an unclosed
\* input { block, the completion list holds property items of the input
\* subset (accel-speed, scroll-method) and no output-only property (mode).
\* Checked under SpecComplete.
C1_InputBlockOffersInputProperties ==
    (/\ pc = "completed"
     /\ BeforeCursor = "input {" \o NL \o Indent)
        => /\ {"accel-speed", "scroll-method"} \subseteq LabelsOfKind("Property")
           /\ "mode" \notin LabelsOfKind("Property")

\* the value items the property-value contract promises for a property
\* (transform, whose members the table lists unquoted, is left out)
ClaimedValueLabels(prop) ==
    CASE prop.valueType = "boolean" -> {"#true", "#false", "true", "false"}
      [] prop.name = "center-focused-column" ->
            {QUOTE \o NIRI_CENTER_COLUMN_VALUES[i] \o QUOTE : i \in 1..Len(NIRI_CENTER_COLUMN_VALUES)}
      [] prop.name = "accel-profile" ->
            {QUOTE \o NIRI_ACCEL_PROFILE_VALUES[i] \o QUOTE : i \in 1..Len(NIRI_ACCEL_PROFILE_VALUES)}
      [] prop.name = "scroll-method" ->
            {QUOTE \o NIRI_SCROLL_METHOD_VALUES[i] \o QUOTE : i \in 1..Len(NIRI_SCROLL_METHOD_VALUES)}
      [] prop.valueType = "number" -> {"0"}
      [] prop.valueType = "color" ->
            {"\"#7fc8ff\"", "\"rgb(255, 127, 0)\"", "\"rgba(255, 127, 0, 0.5)\""}
      [] prop.valueType = "position" -> {"x=0 y=0"}
      [] OTHER -> {}

\* the properties P such that the cursor stands right after a typed `P=`
PropertiesAtCursor ==
    {i \in 1..Len(NIRI_PROPERTIES) :
        \E k \in 1..Len(typed) :
            /\ typed[k] = NIRI_PROPERTIES[i].name \o "="
            /\ Len(Join(SubSeq(typed, 1, k))) = OffsetAt(text, position)}

\* C2: for every property P of the table (hyphenated names included),
\* completing right after `P=` yields the value items of P's declared
\* value-kind. Checked under SpecCompleteValue.
C2_ValueItemsOfDeclaredKind ==
    pc = "completed" =>
        \A i \in PropertiesAtCursor : ClaimedValueLabels(NIRI_PROPERTIES[i]) \subseteq Labels

\* the cursor lies after the } that closes the most recent binds { block: from
\* the start of the last binds { before the cursor, the braces balance out at
\* some point before the cursor
BindsClosedBeforeCursor ==
    LET before == BeforeCursor
        starts == {i \in 0..(Len(before) - 1) : BlockPatternAt(before, i, "binds")}
        lastStart == CHOOSE i \in starts : \A j \in starts : j <= i
    IN /\ starts # {}
       /\ \E k \in (lastStart + 1)..Len(before) :
             /\ CountChar(Substring(before, lastStart, k), "{") > 0
             /\ CountChar(Substring(before, lastStart, k), "{")
                    = CountChar(Substring(before, lastStart, k), "}")

\* C3: for every offset after the } closing the most recent binds { block,
\* isInBlock(text, offset, 'binds') is false, whatever stands in between.
\* Checked under SpecComplete.
C3_NotInBindsAfterItsClosingBrace ==
    (pc = "completed" /\ BindsClosedBeforeCursor) => "binds" \notin enclosing

\* the text of the cursor's line up to the cursor
LinePrefix == Substring(SplitLines(text)[position[1] + 1], 0, position[2])

UniversalLiterals == {"true", "false", "null", "nan", "inf", "-inf"}

UniversalLiteralLabels == UniversalLiterals \cup {"#" \o l : l \in UniversalLiterals}

\* C13: whenever the property-value path triggers (the line prefix ends in
\* name=), the list holds, for each of true, false, null, nan, inf and -inf,
\* the bare label and the #-tagged label, whatever the property.
\* Checked under SpecCompleteValue.
C13_ValuePathOffersUniversalLiterals ==
    (pc = "completed" /\ AfterEqualsName(LinePrefix) # "") =>
        UniversalLiteralLabels \subseteq Labels

\* the block-containment rule as the specification words it: the pattern
\* word boundary, name, optional whitespace, { occurs before the cursor and,
\* from the start of its last occurrence to the cursor, there are more {
\* than }
InBlockByRule(name) ==
    LET before == BeforeCursor
    IN \E i \in 0..(Len(before) - 1) :
          /\ BlockPatternAt(before, i, name)
          /\ \A j \in (i + 1)..(Len(before) - 1) : ~BlockPatternAt(before, j, name)
          /\ CountChar(Substring(before, i, Len(before)), "{")
                 > CountChar(Substring(before, i, Len(before)), "}")

\* the cursor stands inside a name { block that is not closed before it: the
\* brace of some occurrence of the pattern is still open at the cursor
InsideUnclosed(name) ==
    LET before == BeforeCursor
    IN \E i \in 0..(Len(before) - 1) :
          /\ BlockPatternAt(before, i, name)
          /\ LET brace == i + Len(name) + SpaceRun(before, i + Len(name))
             IN \A k \in (brace + 1)..Len(before) :
                   CountChar(Substring(before, i, k), "{")
                      > CountChar(Substring(before, i, k), "}")

\* the list holds one item per key modifier and per special key, and no item
\* of the node-name table
BindingItemsOnly ==
    /\ \A m \in 1..Len(NIRI_KEY_MODIFIERS) :
          Cardinality({i \in 1..Len(completions) :
                          /\ completions[i].label = NIRI_KEY_MODIFIERS[m] \o "+"
                          /\ completions[i].kind = "Keyword"}) = 1
    /\ \A k \in 1..Len(NIRI_SPECIAL_KEYS) :
          Cardinality({i \in 1..Len(completions) :
                          /\ completions[i].label = NIRI_SPECIAL_KEYS[k]
                          /\ completions[i].kind = "Constant"}) = 1
    /\ LabelsOfKind("Class") = {}
    /\ \A n \in 1..Len(NIRI_NODES) : NIRI_NODES[n] \notin Labels

AlwaysAddedLabels == {BasicValueItems[i].label : i \in 1..Len(BasicValueItems)}

EnumValueLabels ==
    LET Of(t) == {t[i] : i \in 1..Len(t)} \cup {QUOTE \o t[i] \o QUOTE : i \in 1..Len(t)}
    IN Of(NIRI_TRANSFORM_VALUES) \cup Of(NIRI_CENTER_COLUMN_VALUES)
          \cup Of(NIRI_ACCEL_PROFILE_VALUES) \cup Of(NIRI_SCROLL_METHOD_VALUES)

\* C15: for the document allow-inhibiting= with the cursor right after =, the
\* first two items are boolean true/false variants, the items after them are
\* the universal literal set, and no enum value of another property is in
\* the list. Checked under SpecCompleteValue.
C15_BooleanValueItemsFirst ==
    (pc = "completed" /\ typed = <<"allow-inhibiting=">> /\ BeforeCursor = text) =>
        /\ Len(completions) >= 2
        /\ completions[1].label \in {"true", "#true"}
        /\ completions[2].label \in {"false", "#false"}
        /\ {completions[i].label : i \in 3..Len(completions)} = AlwaysAddedLabels
        /\ Labels \cap EnumValueLabels = {}

-----------------------------------------------------------------------------
(* server.ts: the handlers *)

Min(a, b) == IF a < b THEN a ELSE b

\* a slice that drops nothing
SliceAll(list, n) == list

\* Array.prototype.slice(0, n)
Slice(list, n) == SubSeq(list, 1, Min(n, Len(list)))

Outcome(op, uri, result, settings, items, run, t) ==
    [op |-> op, uri |-> uri, result |-> result, settings |-> settings, items |-> items,
     validated |-> run.run, validatedEdition |-> run.edition,
     triggerEdition |-> t.trigger, superseded |-> t.superseded,
     text |-> run.text, enabled |-> FALSE, cap |-> 0]

\* the outcome of a call that got its settings: settings.validate and
\* settings.maxNumberOfProblems as the call read them
Under(outcome, settings) ==
    [outcome EXCEPT !.enabled = settings.validate, !.cap = settings.maxNumberOfProblems]

NotRun == [run |-> FALSE, version |-> 0, text |-> "", edition |-> 0]

\* documents.onDidOpen -> onDidChangeContent -> validateTextDocument
DidOpen(u, t) ==
    /\ CanHandle
    /\ ~documents[u].open
    /\ CanRequest({u})
    /\ LET doc == [open |-> TRUE, version |-> 1, text |-> t, edition |-> events + 1]
       IN /\ documents' = [documents EXCEPT ![u] = doc]
          /\ order' = Append(order, u)
          /\ Become(Launch(Here, Task("push", u, doc)))
    /\ events' = events + 1
    /\ UNCHANGED <<hasConfigurationCapability, updateInPlace, clientConfig, published, last>>
    /\ UNCHANGED <<avars, cvars, overtaken>>

\* what a suspended call sees of its document object once the document has
\* changed: the same object updated, or an object that is no longer synced
Supersede(t, u, doc) ==
    IF t.uri = u /\ t.live
    THEN IF updateInPlace
         THEN [t EXCEPT !.version = doc.version, !.text = doc.text,
                        !.edition = doc.edition, !.superseded = TRUE]
         ELSE [t EXCEPT !.live = FALSE, !.superseded = TRUE]
    ELSE t

\* textDocument/didChange -> onDidChangeContent -> validateTextDocument
DidChange(u, t) ==
    /\ CanHandle
    /\ documents[u].open
    /\ documents[u].version < MaxVersion
    /\ t # documents[u].text
    /\ CanRequest({u})
    /\ LET doc == [open |-> TRUE, version |-> documents[u].version + 1, text |-> t,
                   edition |-> events + 1]
           h == [Here EXCEPT !.wt = [i \in 1..Len(waiting) |-> Supersede(waiting[i], u, doc)]]
       IN /\ documents' = [documents EXCEPT ![u] = doc]
          /\ Become(Launch(h, Task("push", u, doc)))
    /\ events' = events + 1
    /\ UNCHANGED <<hasConfigurationCapability, updateInPlace, clientConfig, order,
                   published, last>>
    /\ UNCHANGED <<avars, cvars, overtaken>>

\* a close that leaves the settings cache as it is
ForgetNothing(cache, u) == cache

\* documentSettings.delete(e.document.uri)
Forget(cache, u) == [cache EXCEPT ![u] = 0]

Detach(t, u) == IF t.uri = u THEN [t EXCEPT !.live = FALSE] ELSE t

\* documents.onDidClose
DidClose(u) ==
    /\ CanHandle
    /\ documents[u].open
    /\ documents' = [documents EXCEPT ![u] = ClosedDocument]
    /\ order' = SelectSeq(order, LAMBDA x : x # u)
    /\ documentSettings' = Forget(documentSettings, u)
    /\ waiting' = [i \in 1..Len(waiting) |-> Detach(waiting[i], u)]
    /\ events' = events + 1
    /\ UNCHANGED <<hasConfigurationCapability, updateInPlace, clientConfig, promises,
                   globalSettings, microtasks, published, last>>
    /\ UNCHANGED <<avars, cvars, overtaken>>

\* connection.onDidChangeConfiguration
ChangeConfiguration(c) ==
    /\ CanHandle
    /\ c # clientConfig
    /\ CanRequest({order[i] : i \in 1..Len(order)})
    /\ clientConfig' = c
    /\ LET h == IF hasConfigurationCapability
                THEN [Here EXCEPT !.ds = [u \in URIs |-> 0]]
                ELSE [Here EXCEPT !.gs = IF c.null THEN defaultSettings ELSE c]
           ts == [i \in 1..Len(order) |-> Task("push", order[i], documents[order[i]])]
       IN Become(LaunchAll(h, ts))
    /\ events' = events + 1
    /\ UNCHANGED <<hasConfigurationCapability, updateInPlace, documents, order,
                   published, last>>
    /\ UNCHANGED <<avars, cvars>>

\* connection.onDidChangeConfiguration, every request of the server answered
\* from the configuration the client holds when it answers
DidChangeConfiguration(c) == ChangeConfiguration(c) /\ UNCHANGED overtaken

\* connection.languages.diagnostics.on
PullDiagnostics(u) ==
    /\ CanHandle
    /\ IF documents[u].open
       THEN /\ CanRequest({u})
            /\ Become(Launch(Here, Task("pull", u, documents[u])))
            /\ last' = last
       ELSE /\ last' = Outcome("pull", u, "returned", "none", <<>>, NotRun,
                               Task("pull", u, documents[u]))
            /\ UNCHANGED <<documentSettings, promises, waiting, microtasks, globalSettings>>
    /\ events' = events + 1
    /\ UNCHANGED <<hasConfigurationCapability, updateInPlace, clientConfig, documents,
                   order, published>>
    /\ UNCHANGED <<avars, cvars, overtaken>>

CompletionPositions == {<<0, 0>>, <<3, 0>>}

\* connection.onCompletion
Completion(u, pos) ==
    /\ CanHandle
    /\ LET doc == documents[u]
           t == Task("completion", u, doc)
       IN last' = IF ~doc.open
                  THEN Outcome("completion", u, "returned", "none", <<>>, NotRun, t)
                  ELSE IF pos[1] >= Len(SplitLines(doc.text))
                       THEN Outcome("completion", u, "thrown", "none", <<>>, NotRun, t)
                       ELSE Outcome("completion", u, "returned", "none",
                                    doComplete(doc.text, pos), NotRun, t)
    /\ events' = events + 1
    /\ UNCHANGED <<hasConfigurationCapability, updateInPlace, clientConfig, documents,
                   order, documentSettings, promises, globalSettings, waiting,
                   microtasks, published>>
    /\ UNCHANGED <<avars, cvars, overtaken>>

\* the promise of a workspace/configuration request settles: the calls
\* awaiting it are queued to resume, in the order they started to wait
Settle(p, state, value) ==
    /\ promises[p].state = "pending"
    /\ promises' = [promises EXCEPT ![p] = [state |-> state, value |-> value]]
    /\ LET woken == SelectSeq(waiting, LAMBDA t : t.promise = p)
       IN /\ waiting' = SelectSeq(waiting, LAMBDA t : t.promise # p)
          /\ microtasks' = microtasks \o
                 [i \in 1..Len(woken) |-> [task |-> woken[i], settled |-> state, value |-> value]]
    /\ UNCHANGED <<hasConfigurationCapability, updateInPlace, clientConfig, documents,
                   order, documentSettings, globalSettings, published, last, events>>
    /\ UNCHANGED <<avars, cvars, overtaken>>

\* the client answers a workspace/configuration request
ConfigResponse(p) == microtasks = <<>> /\ Settle(p, "resolved", clientConfig)

\* the workspace/configuration request fails
ConfigReject(p) == microtasks = <<>> /\ Settle(p, "rejected", Null)

SettingsKind(m) ==
    IF m.settled = "rejected" THEN "rejected" ELSE IF m.value.null THEN "null" ELSE "ok"

\* a validateTextDocument that validates the document object it was called
\* with and never looks at documents.get(uri) or the version
PushValidatedCaptured(t, latest) ==
    [run |-> TRUE, version |-> t.version, text |-> t.text, edition |-> t.edition]

\* validateTextDocument after the await: the document that is validated, if any
PushValidated(t, latest) ==
    LET version == t.version
    IN IF latest.open /\ latest.version = version
       THEN [run |-> TRUE, version |-> latest.version, text |-> latest.text,
             edition |-> latest.edition]
       ELSE NotRun

\* validateTextDocumentDiagnostics after the await: validates its argument
PullValidated(t) ==
    [run |-> TRUE, version |-> t.version, text |-> t.text, edition |-> t.edition]

\* a validate setting that is never looked at
EnabledAlways(settings) == TRUE

\* if (!settings.validate) { ... return }
Enabled(settings) == settings.validate

Validated(run, settings) ==
    IF run.run THEN Slice(doValidation(run.text), settings.maxNumberOfProblems) ELSE <<>>

\* validateTextDocument resumes from `await getDocumentSettings`
ResumePush ==
    /\ microtasks # <<>>
    /\ Head(microtasks).task.kind = "push"
    /\ LET m == Head(microtasks)
           t == m.task
           kind == SettingsKind(m)
           run == IF kind = "ok" /\ Enabled(m.value)
                  THEN PushValidated(t, documents[t.uri]) ELSE NotRun
           items == Validated(run, m.value)
       IN IF kind # "ok"
          THEN /\ last' = Outcome("push", t.uri, "logged", kind, <<>>, NotRun, t)
               /\ published' = published
          ELSE /\ last' = Under(Outcome("push", t.uri, "published", kind, items, run, t),
                                 m.value)
               /\ published' = [published EXCEPT ![t.uri] = [sent |-> TRUE, diagnostics |-> items]]
    /\ microtasks' = Tail(microtasks)
    /\ UNCHANGED <<hasConfigurationCapability, updateInPlace, clientConfig, documents,
                   order, documentSettings, promises, globalSettings, waiting, events>>
    /\ UNCHANGED <<avars, cvars, overtaken>>

\* validateTextDocumentDiagnostics resumes from `await getDocumentSettings`
ResumePull ==
    /\ microtasks # <<>>
    /\ Head(microtasks).task.kind = "pull"
    /\ LET m == Head(microtasks)
           t == m.task
           kind == SettingsKind(m)
           run == IF kind = "ok" /\ Enabled(m.value) THEN PullValidated(t) ELSE NotRun
       IN last' = IF kind # "ok"
                  THEN Outcome("pull", t.uri, "thrown", kind, <<>>, NotRun, t)
                  ELSE Under(Outcome("pull", t.uri, "returned", kind,
                                     Validated(run, m.value), run, t), m.value)
    /\ microtasks' = Tail(microtasks)
    /\ UNCHANGED <<hasConfigurationCapability, updateInPlace, clientConfig, documents,
                   order, documentSettings, promises, globalSettings, waiting,
                   published, events>>
    /\ UNCHANGED <<avars, cvars, overtaken>>

NextServer ==
    \/ \E u \in URIs, t \in DocTexts : DidOpen(u, t)
    \/ \E u \in URIs, t \in DocTexts : DidChange(u, t)
    \/ \E u \in URIs : DidClose(u)
    \/ \E c \in ClientConfigs : DidChangeConfiguration(c)
    \/ \E u \in URIs : PullDiagnostics(u)
    \/ \E u \in URIs, pos \in CompletionPositions : Completion(u, pos)
    \/ \E p \in PromiseIds : ConfigResponse(p)
    \/ \E p \in PromiseIds : ConfigReject(p)
    \/ ResumePush
    \/ ResumePull

\* the client may or may not support workspace/configuration, holds any
\* configuration, and no document is open
InitServer ==
    \E capability \in BOOLEAN, inPlace \in BOOLEAN, config \in ClientConfigs :
        InitDocument /\ InitServerWith(capability, inPlace, config) /\ InitCacheWith(1, 0)

SpecServer == InitServer /\ [][NextServer]_vars

-----------------------------------------------------------------------------
(* Properties of the server, checked under SpecServer *)

\* C7: when a push validation triggered for version N resumes after the
\* document has been superseded by a later version, nothing computed from
\* version N's text is published: what it publishes is either the empty list
\* (no document validated) or the findings of a later state of the document,
\* never those of the state it was triggered for.
C7_SupersededPushPublishesNothingOfItsVersion ==
    (last.op = "push" /\ last.superseded /\ last.result = "published") =>
        IF last.validated
        THEN last.validatedEdition > last.triggerEdition
        ELSE last.items = <<>>

\* a push validation whose document was superseded while it awaited the
\* settings has resumed and called sendDiagnostics
C7_SupersededPushResumed ==
    last.op = "push" /\ last.superseded /\ last.result = "published"

\* C8: when the settings request of a document rejects or yields null, the
\* validation still delivers diagnostics: the push path publishes, the pull
\* path returns, as with validate=true and maxNumberOfProblems=100.
C8_SettingsFailureFallsBackToDefaults ==
    last.settings \in {"rejected", "null"} =>
        /\ last.result \in {"published", "returned"}
        /\ last.validated

\* C9: no exception raised while serving a push validation, a pull request
\* or a completion request leaves its handler: every handler ends by
\* publishing, returning or logging.
C9_NoExceptionLeavesAHandler ==
    last.result # "thrown"

\* C19: on the push path and on the pull path, the diagnostics delivered for
\* a document are the first min(n, maxNumberOfProblems) of the n diagnostics
\* doValidation returns for the validated text, in order, and never more
\* than the maximum; what the push path delivers is what is published.
C19_DeliveredListIsCapped ==
    (last.op \in {"push", "pull"} /\ last.validated) =>
        LET raw == doValidation(last.text)
            n == IF Len(raw) < last.cap THEN Len(raw) ELSE last.cap
        IN /\ Len(last.items) = n
           /\ Len(last.items) <= last.cap
           /\ \A i \in 1..n : last.items[i] = raw[i]
           /\ last.op = "push" => published[last.uri].diagnostics = last.items

\* a push validation ran with a maximum of 1 on a document with 3 findings
\* and published 1 diagnostic
C19_OneOfThreePublished ==
    /\ last.op = "push"
    /\ last.validated
    /\ last.cap = 1
    /\ Len(doValidation(last.text)) = 3
    /\ Len(published[last.uri].diagnostics) = 1

\* C20: whenever a push validation runs while the validate setting is false,
\* it publishes the empty list for the document's uri; a pull request
\* returns the empty list; doValidation is not called.
C20_DisabledValidationClears ==
    (last.op \in {"push", "pull"} /\ last.settings = "ok" /\ ~last.enabled) =>
        /\ ~last.validated
        /\ last.items = <<>>
        /\ last.op = "push" =>
              /\ last.result = "published"
              /\ published[last.uri] = [sent |-> TRUE, diagnostics |-> <<>>]
        /\ last.op = "pull" => last.result = "returned"

\* a push validation resumed with validate = false on an open document with
\* findings, and published
C20_DisabledPushPublished ==
    /\ last.op = "push"
    /\ last.settings = "ok"
    /\ ~last.enabled
    /\ last.result = "published"
    /\ documents[last.uri].open
    /\ doValidation(documents[last.uri].text) # <<>>

\* C21: after any sequence of open, change, close and configuration-change
\* events (and of the validations they start), the per-document settings
\* cache holds entries only for documents that are open: a close removes the
\* entry and no validation in flight puts it back.
C21_SettingsCacheOnlyForOpenDocuments ==
    \A u \in URIs : documentSettings[u] # 0 => documents[u].open

\* a push validation of a document resumed after the document was closed
\* (enabled, not superseded, yet nothing to validate), and the document has
\* no cache entry
C21_ResumedAfterClose ==
    /\ last.op = "push"
    /\ last.result = "published"
    /\ last.enabled
    /\ ~last.superseded
    /\ ~last.validated
    /\ ~documents[last.uri].open
    /\ documentSettings[last.uri] = 0
    /\ hasConfigurationCapability

-----------------------------------------------------------------------------
(* The language-model cache on its own *)

InitCache ==
    \E capacity \in 1..MaxCapacity, interval \in {0, 1} :
        /\ InitDocument
        /\ InitServerWith(TRUE, TRUE, defaultSettings)
        /\ InitCacheWith(capacity, interval)

NextCache ==
    \/ \E document \in CacheDocuments : Get(document)
    \/ \E document \in CacheDocuments : OnDocumentRemoved(document)
    \/ Dispose
    \/ Sweep

SpecCache == InitCache /\ [][NextCache]_vars

Stored == {u \in CacheURIs : languageModels[u].present}

\* C22: the cache never holds more than maxEntries entries, get evicts only
\* when its insertion makes the number of entries exceed maxEntries, and
\* what it evicts is the one least recently accessed entry.
C22_EvictsOnlyBeyondMaxEntries ==
    /\ Cardinality(Stored) <= maxEntries
    /\ call.op = "get" /\ call.evicted # "" =>
          /\ call.filled > maxEntries
          /\ call.evictedTime = call.oldest

\* C23: get returns the stored model without parsing exactly when an entry
\* of the URI with the document's version and language id is stored;
\* otherwise it parses once and no entry of another version or language
\* of that URI stays, so the model returned is always that of the document.
C23_GetParsesExactlyWhenStale ==
    call.op = "get" =>
        /\ call.parsed \in {0, 1}
        /\ call.parsed = 0 <=>
              /\ call.before.present
              /\ call.before.version = call.version
              /\ call.before.languageId = call.languageId
        /\ call.parsed = 0 => call.returned = call.before.languageModel
        /\ call.returned = <<call.uri, call.version, call.languageId>>
        /\ languageModels[call.uri].present =>
              /\ languageModels[call.uri].version = call.version
              /\ languageModels[call.uri].languageId = call.languageId
              /\ languageModels[call.uri].languageModel = call.returned

\* a get of a URI stored under another version, answered by a new parse
\* whose entry stays in the cache
C23_StaleEntryReplaced ==
    /\ call.op = "get" /\ call.parsed = 1
    /\ call.before.present /\ call.before.version # call.version
    /\ languageModels[call.uri].present

\* C24: after dispose() the cache holds no entry and the sweep is off,
\* whatever cleanupIntervalTimeInSec was; after onDocumentRemoved(document)
\* no entry of the document's URI remains.
C24_DisposeEmptiesTheCache ==
    /\ call.op = "dispose" => Stored = {} /\ ~cleanupInterval
    /\ call.op = "onDocumentRemoved" => ~languageModels[call.uri].present

-----------------------------------------------------------------------------
(* Property completion inside focus-ring and border blocks *)

\* focus-ring and border blocks inside and after layout blocks and each
\* other, and a letter so that the cursor is not at a line start
RingFragments == {"layout {", "focus-ring {", "border {", "}", "a"}

TypeRing == Len(typed) < MaxRingPieces /\ \E f \in RingFragments : Type(f)

NextCompleteRing == TypeRing \/ Complete

SpecCompleteRing == InitAnalysis /\ [][NextCompleteRing]_vars

\* the names of the focus-ring/border subset
FocusRingProperties ==
    {"width", "active-color", "inactive-color", "urgent-color", "from", "to", "angle",
     "relative-to", "in"}

\* the innermost block open at the cursor is a name { block: after the brace
\* of some occurrence of the pattern every { up to the cursor is closed again
\* and that brace itself is not
InnermostOpen(name) ==
    LET before == BeforeCursor
    IN \E i \in 0..(Len(before) - 1) :
          /\ BlockPatternAt(before, i, name)
          /\ LET inner == i + Len(name) + SpaceRun(before, i + Len(name)) + 1
             IN /\ CountChar(Substring(before, inner, Len(before)), "{")
                      = CountChar(Substring(before, inner, Len(before)), "}")
                /\ \A k \in inner..Len(before) :
                      CountChar(Substring(before, inner, k), "{")
                         >= CountChar(Substring(before, inner, k), "}")

\* C25: where property items are offered (not at a line start, not after =)
\* with the cursor directly inside a focus-ring { or border { block, they
\* are the focus-ring/border subset, also when the block is nested in a
\* layout { block or follows a closed block.
C25_FocusRingOffersItsSubset ==
    (/\ pc = "completed"
     /\ ~IsAtLineStart(LinePrefix)
     /\ AfterEqualsName(LinePrefix) = None
     /\ InnermostOpen("focus-ring") \/ InnermostOpen("border"))
        => LabelsOfKind("Property") = FocusRingProperties

-----------------------------------------------------------------------------
(* Hover *)

\* a name of two tables (layout), a node, a property, a flag, a literal and
\* a separator
HoverFragments == {"layout", "output", "mode", "tap", "#true", " "}

TypeHover == Len(typed) < MaxHoverPieces /\ \E f \in HoverFragments : Type(f)

\* mode.doHover(document, position), the cursor on the first or the second
\* character of one of the typed fragments
Hover ==
    /\ \E k \in 1..Len(typed), d \in {0, 1} :
          LET p == PositionAt(text, Len(Join(SubSeq(typed, 1, k - 1))) + d)
          IN /\ d < Len(typed[k])
             /\ position' = p
             /\ hover' = doHover(text, p)
    /\ pc' = "hovered"
    /\ between' = IF answered = {} THEN between ELSE between \cup {"hover"}
    /\ UNCHANGED <<text, typed, diagnostics, enclosing, completions, answered>>
    /\ UNCHANGED <<svars, cvars, overtaken>>

NextHover == TypeHover \/ Hover

SpecHover == InitAnalysis /\ [][NextHover]_vars

\* the word that contains the cursor offset: the longest run of name
\* characters around the character at the offset, with a # in front of it
\* when there is one; "" when the character at the offset is not part of a word
WordAtCursor ==
    LET offset == OffsetAt(text, position)
        at == IF CharAt(text, offset) = "#" THEN offset + 1 ELSE offset
        starts == {i \in 0..at : \A j \in i..at : IsTokenChar(CharAt(text, j))}
        start == CHOOSE i \in starts : \A j \in starts : i <= j
        from == IF CharAt(text, start - 1) = "#" THEN start - 1 ELSE start
    IN IF starts = {} THEN ""
       ELSE Substring(text, from, start + TokenRun(text, start))

\* a token without the # in front of it
WithoutTag(token) == IF CharAt(token, 0) = "#" THEN Substring(token, 1, Len(token)) ELSE token

\* C26: doHover resolves the word that contains the cursor offset, looked
\* up as property, node, flag, literal in that order, and no other word
\* near the cursor.
C26_HoverResolvesWordAtCursor ==
    (pc = "hovered" /\ WordAtCursor # "") =>
        /\ hover.kind = HoverOf(WordAtCursor).kind
        /\ WithoutTag(hover.token) = WithoutTag(HoverOf(WordAtCursor).token)

-----------------------------------------------------------------------------
(* Bare keywords *)

BareKeywords == {"true", "false", "null"}

\* a node name, a separator, the keywords bare and tagged, a line break
KeywordFragments == BareKeywords \cup {"test-node", " ", "#true", NL}

TypeKeyword == Len(typed) < MaxKeywordPieces /\ \E f \in KeywordFragments : Type(f)

NextValidateKeyword == TypeKeyword \/ Validate

SpecValidateKeyword == InitAnalysis /\ [][NextValidateKeyword]_vars

\* C27: for a node followed by a bare keyword, such as `test-node true`,
\* doValidation reports an Error "Bare keyword '<kw>' is not allowed. Use
\* '#<kw>' instead." on the keyword.
C27_BareKeywordReported ==
    \A kw \in BareKeywords :
        (pc = "validated" /\ typed = <<"test-node", " ", kw>>) =>
            \E k \in 1..Len(diagnostics) :
                /\ diagnostics[k].severity = "Error"
                /\ diagnostics[k].message =
                      "Bare keyword '" \o kw \o "' is not allowed. Use '#" \o kw \o "' instead."
                /\ diagnostics[k].start = <<0, 10>>
                /\ diagnostics[k].end = <<0, 10 + Len(kw)>>

-----------------------------------------------------------------------------
(* Repeated requests on one document snapshot *)

SessionFragments == {"binds {", NL}

TypeSession == Len(typed) < MaxSessionPieces /\ \E f \in SessionFragments : Type(f)

\* what a call of the language mode finds left behind by the calls made
\* before it, with every completion leaving its trace
ItemsRememberingCalls(s, pos, earlier) ==
    IF "complete" \in earlier THEN Tail(doComplete(s, pos)) ELSE doComplete(s, pos)

\* the items a doComplete call returns when the calls of `earlier` were made
\* on the mode before it: the tables are never written and every regex and
\* list is created by the call that uses it, so the calls leave nothing behind
ItemsAfterCalls(s, pos, earlier) == doComplete(s, pos)

\* the calls already made on the present text
Earlier == IF answered = {} THEN {} ELSE between \cup {"complete"}

\* mode.doComplete(document, position), any number of times on one snapshot
CompleteInSession ==
    /\ \E k \in 0..Len(typed) :
          LET p == PositionAt(text, Len(Join(SubSeq(typed, 1, k))))
              items == ItemsAfterCalls(text, p, Earlier)
          IN /\ position' = p
             /\ enclosing' = {b \in RecognizedBlocks : isInBlock(text, OffsetAt(text, p), b)}
             /\ completions' = items
             /\ answered' = IF \E a \in answered : a[1] = p THEN answered
                            ELSE answered \cup {<<p, items>>}
    /\ pc' = "completed"
    /\ between' = Earlier
    /\ UNCHANGED <<text, typed, diagnostics, hover>>
    /\ UNCHANGED <<svars, cvars, overtaken>>

\* mode.doValidation(document), any number of times on one snapshot
ValidateInSession ==
    /\ diagnostics' = doValidation(text)
    /\ pc' = "validated"
    /\ between' = IF answered = {} THEN between ELSE between \cup {"validate"}
    /\ UNCHANGED <<text, typed, position, enclosing, completions, hover, answered>>
    /\ UNCHANGED <<svars, cvars, overtaken>>

NextSession == TypeSession \/ CompleteInSession \/ ValidateInSession \/ Hover

SpecSession == InitAnalysis /\ [][NextSession]_vars

-----------------------------------------------------------------------------
(* Configuration changes that overtake unanswered requests *)

\* connection.onDidChangeConfiguration, the client having read its former
\* configuration for the requests it has not answered yet
DidChangeConfigurationOvertaking(c) ==
    /\ ChangeConfiguration(c)
    /\ overtaken' = [p \in PromiseIds |->
                        IF promises[p].state = "pending"
                        THEN overtaken[p] \cup {clientConfig} ELSE overtaken[p]]

\* the client answers a workspace/configuration request with the
\* configuration it read before its configuration changed
StaleConfigResponse(p) ==
    /\ microtasks = <<>>
    /\ \E c \in overtaken[p] : Settle(p, "resolved", c)

NextServerOvertaking ==
    \/ \E u \in URIs, t \in DocTexts : DidOpen(u, t)
    \/ \E u \in URIs, t \in DocTexts : DidChange(u, t)
    \/ \E u \in URIs : DidClose(u)
    \/ \E c \in ClientConfigs : DidChangeConfigurationOvertaking(c)
    \/ \E u \in URIs : PullDiagnostics(u)
    \/ \E u \in URIs, pos \in CompletionPositions : Completion(u, pos)
    \/ \E p \in PromiseIds : ConfigResponse(p)
    \/ \E p \in PromiseIds : StaleConfigResponse(p)
    \/ \E p \in PromiseIds : ConfigReject(p)
    \/ ResumePush
    \/ ResumePull

\* the client supports workspace/configuration
InitServerConfigurable ==
    \E inPlace \in BOOLEAN, config \in ClientConfigs :
        InitDocument /\ InitServerWith(TRUE, inPlace, config) /\ InitCacheWith(1, 0)

SpecServerOvertaking == InitServerConfigurable /\ [][NextServerOvertaking]_vars

\* the server with a client that supports workspace/configuration and
\* answers from its present configuration
SpecServerConfigurable == InitServerConfigurable /\ [][NextServer]_vars

\* C29: once every validation has finished, the push validation that
\* published last for an open document read the settings of the client's
\* present configuration,
\* whatever the order of the runs and of the settings responses.
C29_LastPublishedUnderPresentSettings ==
    (/\ hasConfigurationCapability
     /\ waiting = <<>> /\ microtasks = <<>>
     /\ last.op = "push" /\ last.result = "published"
     /\ documents[last.uri].open)
        => /\ last.enabled = clientConfig.validate
           /\ last.cap = clientConfig.maxNumberOfProblems

-----------------------------------------------------------------------------
(* Failed settings requests *)

\* the request cached for document u has failed
FailedSettingsOf(u) ==
    documentSettings[u] # 0 /\ promises[documentSettings[u]].state = "rejected"

\* a push validation that got a failed request publishes nothing, every
\* call that is about to resume on a failed request resumes with the
\* failure, and no two documents share a request
FailureIsLoggedOnly ==
    /\ last.op = "push" /\ last.settings = "rejected" =>
          last.result = "logged" /\ last.items = <<>> /\ ~last.validated
    /\ \A i \in 1..Len(microtasks) :
          LET q == microtasks[i].task.promise
          IN q # 0 /\ promises[q].state = "rejected" => microtasks[i].settled = "rejected"
    /\ \A u, v \in URIs :
          u # v /\ documentSettings[u] # 0 => documentSettings[u] # documentSettings[v]

\* while the failed request of u is cached, a step that neither closes u nor
\* changes the configuration leaves it cached and failed, sends no request
\* for u, and lets every call it starts on u resume with the failure
FailureStaysCached ==
    \A u \in URIs :
        FailedSettingsOf(u) =>
            \/ ~documents'[u].open
            \/ clientConfig' # clientConfig
            \/ /\ documentSettings'[u] = documentSettings[u]
               /\ promises'[documentSettings[u]] = promises[documentSettings[u]]
               /\ \A i \in 1..Len(waiting') : waiting'[i].uri = u =>
                     promises[waiting'[i].promise].state = "pending"
               /\ \A i \in 1..Len(microtasks') :
                     (microtasks'[i].task.uri = u /\ microtasks'[i].task.kind = "push"
                      /\ microtasks'[i].task.promise = documentSettings[u]) =>
                        microtasks'[i].settled = "rejected"

=============================================================================
